---- MODULE Spec2Model ----
(***************************************************************************)
(* Model of rss_parser (scratch.py): the tag scanner, the field extractor, *)
(* the document parser and the json-like serializer.                       *)
(*                                                                         *)
(* A Python str is a sequence of one-character strings; a Python index is  *)
(* 0-based and is kept 0-based here (find returns -1 for "not found").     *)
(* A dict is a sequence of <<key, value>> pairs in insertion order.        *)
(* A call's outcome is a record [kind, val, err]: kind "ok" (val returned),*)
(* "none" (None returned) or "raise" (ParserError raised, err its kind).   *)
(***************************************************************************)
EXTENDS Integers, Sequences, FiniteSets

VARIABLES
  data,   \* the text handed to parse (line 138) or to a scanner call
  limit,  \* rss_parser's limit: <<>> for None, <<n>> for the integer n
  pc,     \* "start"; after parse "parsed" or "failed"; after as_json "done";
          \* after a scanner call "single", "multi" or "fields"
  arg,    \* the tag (as <<tag>>) or the tag list of the scanner call made
  ret,    \* the outcome of parse (line 139) or of the scanner call
  out,    \* the lines as_json returned (line 140)
  cut     \* the characters as_json removed with res[-1][:-1]

vars == <<data, limit, pc, arg, ret, out, cut>>

(***************************************************************************)
(* Bounds of the explored inputs.                                          *)
(***************************************************************************)
MaxPieces == 4
MaxChannels == 2
MaxItems == 2
MaxLimit == 2

(***************************************************************************)
(* Python primitives.                                                      *)
(***************************************************************************)
Min2(a, b) == IF a < b THEN a ELSE b

Max2(a, b) == IF a > b THEN a ELSE b

\* the spelling of a tag name or dict key, character by character
Chars(tag) ==
  CASE tag = "channel" -> <<"c", "h", "a", "n", "n", "e", "l">>
    [] tag = "item" -> <<"i", "t", "e", "m">>
    [] tag = "items" -> <<"i", "t", "e", "m", "s">>
    [] tag = "title" -> <<"t", "i", "t", "l", "e">>
    [] tag = "link" -> <<"l", "i", "n", "k">>
    [] tag = "description" -> <<"d", "e", "s", "c", "r", "i", "p", "t", "i", "o", "n">>
    [] tag = "lastBuildDate" -> <<"l", "a", "s", "t", "B", "u", "i", "l", "d", "D", "a", "t", "e">>
    [] tag = "pubDate" -> <<"p", "u", "b", "D", "a", "t", "e">>
    [] tag = "language" -> <<"l", "a", "n", "g", "u", "a", "g", "e">>
    [] tag = "category" -> <<"c", "a", "t", "e", "g", "o", "r", "y">>
    [] tag = "managinEditor" -> <<"m", "a", "n", "a", "g", "i", "n", "E", "d", "i", "t", "o", "r">>
    [] tag = "author" -> <<"a", "u", "t", "h", "o", "r">>

\* f'<{tag}>'
OpenTag(tag) == <<"<">> \o Chars(tag) \o <<">">>

\* f'</{tag}>'
CloseTag(tag) == <<"<", "/">> \o Chars(tag) \o <<">">>

\* s[a:b] with Python's clamping and negative indices
PySlice(s, a, b) ==
  LET n == Len(s)
      lo == IF a < 0 THEN Max2(0, n + a) ELSE Min2(a, n)
      hi == IF b < 0 THEN Max2(0, n + b) ELSE Min2(b, n)
  IN SubSeq(s, lo + 1, hi)

\* s[a:]
PyFrom(s, a) == PySlice(s, a, Len(s))

\* str.find: the lowest 0-based index at which pat occurs in s, or -1
PyFind(s, pat) ==
  LET hits == {i \in 1..(Len(s) - Len(pat) + 1) : SubSeq(s, i, i + Len(pat) - 1) = pat}
  IN IF hits = {} THEN -1 ELSE (CHOOSE i \in hits : \A j \in hits : i <= j) - 1

RECURSIVE PySplit(_, _)
\* str.split(sep): the pieces between the non-overlapping occurrences of sep, left to right
PySplit(s, sep) ==
  LET i == PyFind(s, sep)
  IN IF i < 0 THEN <<s>>
     ELSE <<PySlice(s, 0, i)>> \o PySplit(PyFrom(s, i + Len(sep)), sep)

RECURSIVE PyReplace(_, _, _)
\* str.replace(old, new): every non-overlapping occurrence, left to right, no rescan
PyReplace(s, old, new) ==
  LET i == PyFind(s, old)
  IN IF i < 0 THEN s
     ELSE PySlice(s, 0, i) \o new \o PyReplace(PyFrom(s, i + Len(old)), old, new)

\* dict operations on a sequence of <<key, value>> pairs
DictHas(d, k) == \E i \in 1..Len(d) : d[i][1] = k

DictGet(d, k) == d[CHOOSE i \in 1..Len(d) : d[i][1] = k][2]

DictSet(d, k, v) ==
  IF DictHas(d, k)
  THEN [i \in 1..Len(d) |-> IF d[i][1] = k THEN <<k, v>> ELSE d[i]]
  ELSE Append(d, <<k, v>>)

DictKeys(d) == [i \in 1..Len(d) |-> d[i][1]]

\* outcomes of a call
Ok(v) == [kind |-> "ok", val |-> v, err |-> ""]

None == [kind |-> "none", val |-> <<>>, err |-> ""]

Raise(e) == [kind |-> "raise", val |-> <<>>, err |-> e]

(***************************************************************************)
(* decode_str                                                              *)
(***************************************************************************)
decode_str(string) ==
  PyReplace(PyReplace(PyReplace(string,
                                <<"&", "a", "m", "p", ";">>, <<"&">>),
                      <<"&", "l", "t", ";">>, <<"<">>),
            <<"&", "g", "t", ";">>, <<">">>)

(***************************************************************************)
(* Tag scanner                                                             *)
(***************************************************************************)
\* mutant: the slice starts one character early, on the ">" of the opening marker
split_by_tag_single_OffByOne(text, tag) ==
  LET start == PyFind(text, OpenTag(tag))
      end == PyFind(text, CloseTag(tag))
  IN IF start < 0 THEN None
     ELSE IF end < start THEN Raise("MalformedTag")
     ELSE Ok(PySlice(text, start + Len(Chars(tag)) + 1, end))

split_by_tag_single(text, tag) ==
  LET start == PyFind(text, OpenTag(tag))
      end == PyFind(text, CloseTag(tag))
  IN IF start < 0 THEN None
     ELSE IF end < start THEN Raise("MalformedTag")
     ELSE Ok(PySlice(text, start + Len(Chars(tag)) + 2, end))

\* the test of line 48 on the index of the closing tag within a fragment
ClosingFound(end) == end > 0

RECURSIVE TruncateSegments(_, _, _)
\* the loop of lines 46-51 over res[i], i = 1 .. len(res) - 1 (0-based)
TruncateSegments(res, tag, i) ==
  IF i >= Len(res) THEN Ok(res)
  ELSE LET end == PyFind(res[i + 1], CloseTag(tag))
       IN IF ClosingFound(end)
          THEN TruncateSegments([res EXCEPT ![i + 1] = PySlice(res[i + 1], 0, end)], tag, i + 1)
          ELSE Raise("MalformedTag")

split_by_tag_multi(text, tag) ==
  LET res == PySplit(text, OpenTag(tag))
  IN IF Len(res) < 2 THEN None
     ELSE LET r == TruncateSegments(res, tag, 1)
          IN IF r.kind = "raise" THEN r ELSE Ok(PyFrom(r.val, 1))

(***************************************************************************)
(* Field extractor                                                         *)
(***************************************************************************)
\* the test of line 62 on the segment returned by split_by_tag_single
Truthy(tag_data) == tag_data.kind = "ok" /\ Len(tag_data.val) > 0

RECURSIVE FieldsLoop(_, _, _, _)
\* the loop of lines 60-63 over tags[i], 1-based
FieldsLoop(text, tags, i, res) ==
  IF i > Len(tags) THEN Ok(res)
  ELSE LET tag_data == split_by_tag_single(text, tags[i])
       IN IF tag_data.kind = "raise" THEN tag_data
          ELSE IF Truthy(tag_data)
          THEN FieldsLoop(text, tags, i + 1, DictSet(res, tags[i], decode_str(tag_data.val)))
          ELSE FieldsLoop(text, tags, i + 1, res)

split_by_tags(text, tags) == FieldsLoop(text, tags, 1, <<>>)

\* the tag lists rss_parser passes to parse
tags_for_channel ==
  <<"title", "link", "description", "lastBuildDate", "pubDate", "language",
    "category", "managinEditor">>

tags_for_item == <<"title", "author", "pubDate", "link", "category", "description">>

(***************************************************************************)
(* Document parser.  limit is <<>> for None and <<n>> for the integer n.   *)
(***************************************************************************)
\* items[:limit] when limit is not None (lines 85-86)
Truncate(items, lim) == IF lim = <<>> THEN items ELSE PySlice(items, 0, lim[1])

\* mutant: every item record is appended, the empty ones too
KeepItem_Always(list, item_data) == Append(list, item_data)

\* res[-1]['items'].append(item_data) when item_data is non-empty (lines 90-91)
KeepItem(list, item_data) == IF Len(item_data) > 0 THEN Append(list, item_data) ELSE list

RECURSIVE ItemsLoop(_, _, _, _)
\* the loop of lines 88-91 over items[i], 1-based; list is res[-1]['items']
ItemsLoop(items, tfi, i, list) ==
  IF i > Len(items) THEN Ok(list)
  ELSE LET item_data == split_by_tags(items[i], tfi)
       IN IF item_data.kind = "raise" THEN item_data
          ELSE ItemsLoop(items, tfi, i + 1, KeepItem(list, item_data.val))

\* mutant: the items key is set only when an item record was kept
ChannelItems_DropEmptyList(channel, channel_data, tfi, lim) ==
  LET items == split_by_tag_multi(channel, "item")
  IN IF items.kind = "raise" THEN items
     ELSE IF Truthy(items)
     THEN LET list == ItemsLoop(Truncate(items.val, lim), tfi, 1, <<>>)
          IN IF list.kind = "raise" THEN list
             ELSE IF list.val = <<>> THEN Ok(channel_data)
             ELSE Ok(DictSet(channel_data, "items", list.val))
     ELSE Ok(channel_data)

\* mutant: the list is cut to limit after the empty records were dropped
ChannelItems_TruncateLate(channel, channel_data, tfi, lim) ==
  LET items == split_by_tag_multi(channel, "item")
  IN IF items.kind = "raise" THEN items
     ELSE IF Truthy(items)
     THEN LET list == ItemsLoop(items.val, tfi, 1, <<>>)
          IN IF list.kind = "raise" THEN list
             ELSE Ok(DictSet(channel_data, "items", Truncate(list.val, lim)))
     ELSE Ok(channel_data)

\* lines 83-91 for one channel whose record channel_data was just appended
ChannelItems(channel, channel_data, tfi, lim) ==
  LET items == split_by_tag_multi(channel, "item")
  IN IF items.kind = "raise" THEN items
     ELSE IF Truthy(items)
     THEN LET list == ItemsLoop(Truncate(items.val, lim), tfi, 1, <<>>)
          IN IF list.kind = "raise" THEN list
             ELSE Ok(DictSet(channel_data, "items", list.val))
     ELSE Ok(channel_data)

\* mutant: the channel's fields are looked for before its first item only
ChannelData_BeforeItems(channel, tfc) ==
  LET first == PyFind(channel, OpenTag("item"))
  IN split_by_tags(IF first < 0 THEN channel ELSE PySlice(channel, 0, first), tfc)

\* channel_data = split_by_tags(channel, tags_for_channel)  (line 77)
ChannelData(channel, tfc) == split_by_tags(channel, tfc)

RECURSIVE ChannelsLoop(_, _, _, _, _, _)
\* the loop of lines 76-91 over channels[i], 1-based
ChannelsLoop(channels, tfc, tfi, lim, i, res) ==
  IF i > Len(channels) THEN Ok(res)
  ELSE LET channel_data == ChannelData(channels[i], tfc)
       IN IF channel_data.kind = "raise" THEN channel_data
          ELSE IF Len(channel_data.val) = 0 THEN Raise("EmptyChannel")
          ELSE LET rec == ChannelItems(channels[i], channel_data.val, tfi, lim)
               IN IF rec.kind = "raise" THEN rec
                  ELSE ChannelsLoop(channels, tfc, tfi, lim, i + 1, Append(res, rec.val))

parse(text, tfc, tfi, lim) ==
  LET channels == split_by_tag_multi(text, "channel")
  IN IF channels.kind = "raise" THEN channels
     ELSE IF ~Truthy(channels) THEN Raise("NoChannelsFound")
     ELSE ChannelsLoop(channels.val, tfc, tfi, lim, 1, <<>>)

(***************************************************************************)
(* Serializer.  The state of as_json is [res, cut]: res is the list of     *)
(* lines, cut the characters that the three res[-1][:-1] have removed.     *)
(***************************************************************************)
Quote == "\""

\* f'  "{tag}": "{channel[tag]}",' and f'      "{tag}": "{item[tag]}",'
FieldLine(indent, tag, value) ==
  indent \o <<Quote>> \o Chars(tag) \o <<Quote, ":", " ", Quote>> \o value \o <<Quote, ",">>

ChannelIndent == <<" ", " ">>

ItemIndent == <<" ", " ", " ", " ", " ", " ">>

BlockOpen == <<"{">>

BlockClose == <<"}", ",">>

ItemOpen == <<" ", " ", " ", " ", "{">>

ItemClose == <<" ", " ", " ", " ", "}", ",">>

ItemsOpen == <<" ", " ", Quote, "i", "t", "e", "m", "s", Quote, ":", " ", "[">>

ItemsClose == <<" ", " ", "]">>

\* res.append(line)
Emit(st, line) == [st EXCEPT !.res = Append(@, line)]

\* res[-1] = res[-1][:-1]
DropLast(st) ==
  LET n == Len(st.res)
      line == st.res[n]
  IN [res |-> [st.res EXCEPT ![n] = PySlice(line, 0, -1)],
      cut |-> st.cut \o PyFrom(line, Len(line) - 1)]

RECURSIVE ChannelFields(_, _, _)
\* the loop of lines 101-103 over channel's keys
ChannelFields(st, channel, i) ==
  IF i > Len(channel) THEN st
  ELSE ChannelFields(IF channel[i][1] # "items"
                     THEN Emit(st, FieldLine(ChannelIndent, channel[i][1], channel[i][2]))
                     ELSE st,
                     channel, i + 1)

RECURSIVE ItemFields(_, _, _)
\* the loop of lines 111-112 over item's keys
ItemFields(st, item, i) ==
  IF i > Len(item) THEN st
  ELSE ItemFields(Emit(st, FieldLine(ItemIndent, item[i][1], item[i][2])), item, i + 1)

RECURSIVE JsonItems(_, _, _)
\* the loop of lines 109-114 over channel['items']
JsonItems(st, items, i) ==
  IF i > Len(items) THEN st
  ELSE JsonItems(Emit(DropLast(ItemFields(Emit(st, ItemOpen), items[i], 1)), ItemClose),
                 items, i + 1)

\* not channel.get('items')  (line 104)
Itemless(channel) == ~DictHas(channel, "items") \/ Len(DictGet(channel, "items")) = 0

RECURSIVE JsonChannels_NoBreak(_, _, _)
\* mutant: no break after a channel without items
JsonChannels_NoBreak(st, doc, i) ==
  IF i > Len(doc) THEN st
  ELSE LET fields == ChannelFields(Emit(st, BlockOpen), doc[i], 1)
       IN IF Itemless(doc[i]) THEN JsonChannels_NoBreak(Emit(fields, BlockClose), doc, i + 1)
          ELSE JsonChannels_NoBreak(
                 Emit(Emit(DropLast(JsonItems(Emit(fields, ItemsOpen),
                                              DictGet(doc[i], "items"), 1)),
                           ItemsClose),
                      BlockClose),
                 doc, i + 1)

RECURSIVE JsonChannels(_, _, _)
\* the loop of lines 99-117 over data[i], 1-based, with its break
JsonChannels(st, doc, i) ==
  IF i > Len(doc) THEN st
  ELSE LET fields == ChannelFields(Emit(st, BlockOpen), doc[i], 1)
       IN IF Itemless(doc[i]) THEN Emit(fields, BlockClose)
          ELSE JsonChannels(
                 Emit(Emit(DropLast(JsonItems(Emit(fields, ItemsOpen),
                                              DictGet(doc[i], "items"), 1)),
                           ItemsClose),
                      BlockClose),
                 doc, i + 1)

\* as_json; res[-1] of an empty list raises IndexError
as_json(doc) ==
  LET st == JsonChannels([res |-> <<>>, cut |-> <<>>], doc, 1)
  IN IF Len(st.res) = 0 THEN Raise("IndexError") ELSE Ok(DropLast(st))

(***************************************************************************)
(* Inputs.  A feed text is built from channel and item blocks; the title   *)
(* of the i-th channel is the i-th letter and the title of the j-th item   *)
(* of a channel the j-th digit, so that document order shows in the values.*)
(***************************************************************************)
Letter(i) == <<"A", "B", "C", "D", "E", "F">>[i]

Digit(j) == <<"1", "2", "3", "4", "5", "6">>[j]

Element(tag, content) == OpenTag(tag) \o content \o CloseTag(tag)

AmpLt == <<"&", "a", "m", "p", ";", "l", "t", ";">>

HeadKinds == {"none", "title", "title_desc", "link_title", "empty", "unclosed"}

ChannelHead(kind, c) ==
  CASE kind = "none" -> <<>>
    [] kind = "title" -> Element("title", <<c>>)
    [] kind = "title_desc" -> Element("title", <<c>>) \o Element("description", <<"D">>)
    [] kind = "link_title" -> Element("link", <<"L">>) \o Element("title", <<c>> \o AmpLt)
    [] kind = "empty" -> Element("title", <<>>)
    [] kind = "unclosed" -> OpenTag("title") \o <<c>>

ItemKinds == {"title", "junk", "empty", "link_title", "unclosed"}

Item(kind, d) ==
  CASE kind = "title" -> Element("item", Element("title", <<d>>))
    [] kind = "junk" -> Element("item", <<"x">>)
    [] kind = "empty" -> Element("item", <<>>)
    [] kind = "link_title" -> Element("item", Element("link", <<"L">>) \o Element("title", <<d>>))
    [] kind = "unclosed" -> OpenTag("item") \o Element("title", <<d>>)

RECURSIVE Items(_, _)
Items(kinds, j) ==
  IF j > Len(kinds) THEN <<>> ELSE Item(kinds[j], Digit(j)) \o Items(kinds, j + 1)

\* shape = <<head kind, item kinds>>
Channel(shape, i) == Element("channel", ChannelHead(shape[1], Letter(i)) \o Items(shape[2], 1))

RECURSIVE Channels(_, _)
Channels(shapes, i) ==
  IF i > Len(shapes) THEN <<>> ELSE Channel(shapes[i], i) \o Channels(shapes, i + 1)

SeqsUpTo(S, n) == UNION {[1..k -> S] : k \in 0..n}

\* one channel, every head with every list of at most MaxItems items
RichShapes == HeadKinds \X SeqsUpTo(ItemKinds, MaxItems)

\* the shapes of the channels of a feed of several channels
PlainShapes ==
  {<<"title", <<>>>>, <<"title", <<"title">>>>, <<"title", <<"junk">>>>,
   <<"title", <<"title", "title">>>>, <<"none", <<"title">>>>, <<"none", <<>>>>}

Rss(body) == <<"<", "r", "s", "s", ">">> \o body \o <<"<", "/", "r", "s", "s", ">">>

Docs ==
  {Channel(shape, 1) : shape \in RichShapes}
  \cup {Rss(Channels(shapes, 1)) : shapes \in SeqsUpTo(PlainShapes, MaxChannels)}

Limits == {<<>>} \cup {<<n>> : n \in 0..MaxLimit}

\* segments handed to the scanner and the extractor directly
ScanPieces ==
  {OpenTag("title"), CloseTag("title"), OpenTag("item"), CloseTag("item"), <<"x">>, AmpLt}

RECURSIVE Flatten(_)
Flatten(pieces) == IF pieces = <<>> THEN <<>> ELSE Head(pieces) \o Flatten(Tail(pieces))

Segments == {Flatten(pieces) : pieces \in SeqsUpTo(ScanPieces, MaxPieces)}

ScanTags == {"title", "item"}

(***************************************************************************)
(* Spec: rss_parser on a fetched text: parse, then as_json.                *)
(***************************************************************************)
Init ==
  /\ data \in Docs
  /\ limit \in Limits
  /\ pc = "start"
  /\ arg = <<>>
  /\ ret = None
  /\ out = <<>>
  /\ cut = <<>>

\* line 139
Parse ==
  /\ pc = "start"
  /\ ret' = parse(data, tags_for_channel, tags_for_item, limit)
  /\ pc' = IF ret'.kind = "raise" THEN "failed" ELSE "parsed"
  /\ UNCHANGED <<data, limit, arg, out, cut>>

\* line 140
AsJson ==
  /\ pc = "parsed"
  /\ LET r == as_json(ret.val)
     IN /\ pc' = IF r.kind = "raise" THEN "failed" ELSE "done"
        /\ out' = IF r.kind = "raise" THEN <<>> ELSE r.val.res
        /\ cut' = IF r.kind = "raise" THEN <<>> ELSE r.val.cut
  /\ UNCHANGED <<data, limit, arg, ret>>

Next == Parse \/ AsJson

Spec == Init /\ [][Next]_vars

(***************************************************************************)
(* ScanSpec: the scanner and the extractor called on a segment.            *)
(***************************************************************************)
ScanInit ==
  /\ data \in Segments
  /\ limit = <<>>
  /\ pc = "start"
  /\ arg = <<>>
  /\ ret = None
  /\ out = <<>>
  /\ cut = <<>>

FindSingle ==
  /\ pc = "start"
  /\ \E tag \in ScanTags :
       /\ arg' = <<tag>>
       /\ ret' = split_by_tag_single(data, tag)
  /\ pc' = "single"
  /\ UNCHANGED <<data, limit, out, cut>>

FindAll ==
  /\ pc = "start"
  /\ \E tag \in ScanTags :
       /\ arg' = <<tag>>
       /\ ret' = split_by_tag_multi(data, tag)
  /\ pc' = "multi"
  /\ UNCHANGED <<data, limit, out, cut>>

ExtractFields ==
  /\ pc = "start"
  /\ \E tags \in {tags_for_channel, tags_for_item} :
       /\ arg' = tags
       /\ ret' = split_by_tags(data, tags)
  /\ pc' = "fields"
  /\ UNCHANGED <<data, limit, out, cut>>

ScanNext == FindSingle \/ FindAll \/ ExtractFields

ScanSpec == ScanInit /\ [][ScanNext]_vars

(***************************************************************************)
(* Vocabulary of the properties: occurrences of a marker in a text, by     *)
(* position (0-based), independent of find and split.                      *)
(***************************************************************************)
Occ(text, pat) ==
  {i \in 0..(Len(text) - Len(pat)) : SubSeq(text, i + 1, i + Len(pat)) = pat}

Contains(text, pat) == Occ(text, pat) # {}

Least(S) == CHOOSE x \in S : \A y \in S : x <= y

\* the k-th smallest element of S, k = 1 .. Cardinality(S)
Nth(S, k) == CHOOSE x \in S : Cardinality({y \in S : y < x}) = k - 1

\* the closing markers of tag after position o
ClosesAfter(text, tag, o) == {c \in Occ(text, CloseTag(tag)) : c > o}

\* the text strictly between the opening marker at o and the first closing marker after it
Between(text, tag, o) ==
  SubSeq(text, o + Len(OpenTag(tag)) + 1, Least(ClosesAfter(text, tag, o)))

\* the content of the k-th <tag> ... </tag> occurrence
Segment(text, tag, k) == Between(text, tag, Nth(Occ(text, OpenTag(tag)), k))

\* every opening marker of tag is followed by a closing marker before the next opening marker
WellPaired(text, tag) ==
  LET opens == Occ(text, OpenTag(tag))
  IN \A o \in opens :
       \E c \in ClosesAfter(text, tag, o) : \A o2 \in opens : o2 > o => c < o2

(***************************************************************************)
(* C7: findSingle returns "not found" iff <tag> does not occur; a returned *)
(* segment is the exact text strictly between the first <tag> and the      *)
(* first </tag> after it; when <tag> occurs and no </tag> occurs after it, *)
(* the call fails with MalformedTag.                                       *)
(***************************************************************************)
C7_FindSingle ==
  pc = "single" =>
    LET tag == arg[1]
        opens == Occ(data, OpenTag(tag))
    IN /\ (ret.kind = "none") <=> (opens = {})
       /\ ret.kind = "ok" =>
            /\ ClosesAfter(data, tag, Least(opens)) # {}
            /\ ret.val = Between(data, tag, Least(opens))
       /\ (opens # {} /\ ClosesAfter(data, tag, Least(opens)) = {}) =>
            ret = Raise("MalformedTag")

\* a segment with content is returned from a text that has a prefix before the opening marker
C7_Witness ==
  /\ pc = "single"
  /\ ret.kind = "ok"
  /\ Len(ret.val) > 0
  /\ Least(Occ(data, OpenTag(arg[1]))) > 0

(***************************************************************************)
(* C8: findAll returns one segment per <tag>...</tag> occurrence, in       *)
(* document order, for every text in which each opening marker is followed *)
(* by its closing marker, occurrences with empty content included; the     *)
(* text before the first opening marker is discarded and each segment is   *)
(* the text between an opening marker and the first closing marker after.  *)
(***************************************************************************)
C8_FindAll ==
  (pc = "multi" /\ WellPaired(data, arg[1])) =>
    LET tag == arg[1]
        n == Cardinality(Occ(data, OpenTag(tag)))
    IN IF n = 0 THEN ret.kind = "none"
       ELSE /\ ret.kind = "ok"
            /\ ret.val = [k \in 1..n |-> Segment(data, tag, k)]

(***************************************************************************)
(* C9: when extractFields does not fail, the record has a key for tag t    *)
(* iff the opening marker of t occurs in the segment, whatever the content *)
(* (empty content included); the value is the decoded content and the keys *)
(* are in the order of the tag list.                                       *)
(***************************************************************************)
C9_Keys ==
  (pc = "fields" /\ ret.kind = "ok") =>
    LET found == SelectSeq(arg, LAMBDA t : Contains(data, OpenTag(t)))
    IN /\ DictKeys(ret.val) = found
       /\ \A i \in 1..Len(ret.val) :
            ret.val[i][2] =
              decode_str(Between(data, ret.val[i][1], Least(Occ(data, OpenTag(ret.val[i][1])))))

(***************************************************************************)
(* Vocabulary of the properties of parse.                                  *)
(***************************************************************************)
Returned == pc \in {"parsed", "done"}

NChannels == Cardinality(Occ(data, OpenTag("channel")))

ChannelSeg(i) == Segment(data, "channel", i)

AllTags ==
  {"channel", "item"} \cup {tags_for_channel[i] : i \in 1..Len(tags_for_channel)}
  \cup {tags_for_item[i] : i \in 1..Len(tags_for_item)}

\* the fields of a record other than its items
FieldsOf(record) == SelectSeq(record, LAMBDA kv : kv[1] # "items")

\* <t> occurs in seg and the text up to the first </t> after it is not empty
NonEmptyContent(seg, t) ==
  LET opens == Occ(seg, OpenTag(t))
  IN /\ opens # {}
     /\ ClosesAfter(seg, t, Least(opens)) # {}
     /\ Between(seg, t, Least(opens)) # <<>>

\* every tag is opened and closed in pairs, there is a channel, and every channel
\* holds a channel tag with content
WellFormed(text) ==
  /\ \A tag \in AllTags :
       /\ WellPaired(text, tag)
       /\ Cardinality(Occ(text, CloseTag(tag))) = Cardinality(Occ(text, OpenTag(tag)))
  /\ Contains(text, OpenTag("channel"))
  /\ \A i \in 1..Cardinality(Occ(text, OpenTag("channel"))) :
       \E k \in 1..Len(tags_for_channel) :
         NonEmptyContent(Segment(text, "channel", i), tags_for_channel[k])

(***************************************************************************)
(* C1: for every well-formed text with N occurrences of the channel tag    *)
(* and no malformed tag, parse returns exactly N channel records, in the   *)
(* document order of the channels.                                         *)
(***************************************************************************)
C1_Count ==
  (pc # "start" /\ WellFormed(data)) =>
    /\ ret.kind = "ok"
    /\ Len(ret.val) = NChannels
    /\ \A i \in 1..NChannels :
         FieldsOf(ret.val[i]) = split_by_tags(ChannelSeg(i), tags_for_channel).val

(***************************************************************************)
(* C2: in every record parse returns, the items key is present iff the     *)
(* channel's segment contains an item tag; with limit 0 it is present and  *)
(* empty, and it is present when no item yields a field.                   *)
(***************************************************************************)
C2_ItemsKey ==
  Returned =>
    \A i \in 1..Len(ret.val) :
      /\ DictHas(ret.val[i], "items") <=> Contains(ChannelSeg(i), OpenTag("item"))
      /\ (DictHas(ret.val[i], "items") /\ limit = <<0>>) => DictGet(ret.val[i], "items") = <<>>

\* limit 0 on a channel that has an item: the key is there, the list is empty
C2_Witness ==
  /\ Returned
  /\ limit = <<0>>
  /\ Contains(data, OpenTag("item"))
  /\ DictHas(ret.val[1], "items")

(***************************************************************************)
(* C3: the item list of a channel is the sequence of the non-empty records *)
(* of its first `limit` item segments (all of them when limit is absent),  *)
(* in document order: truncation comes first, then empty records are       *)
(* dropped, and the list is never longer than limit.  With limit 1 and two *)
(* items that each have a title, the list is the first item's record.      *)
(***************************************************************************)
TwoTitledItems == Channel(<<"title", <<"title", "title">>>>, 1)

C3_ItemList ==
  Returned =>
    /\ \A i \in 1..Len(ret.val) :
         DictHas(ret.val[i], "items") =>
           LET seg == ChannelSeg(i)
               n == Cardinality(Occ(seg, OpenTag("item")))
               m == IF limit = <<>> THEN n ELSE Min2(limit[1], n)
               recs == [j \in 1..m |-> split_by_tags(Segment(seg, "item", j), tags_for_item).val]
               list == DictGet(ret.val[i], "items")
           IN /\ list = SelectSeq(recs, LAMBDA r : Len(r) > 0)
              /\ limit # <<>> => Len(list) <= limit[1]
    /\ (data = TwoTitledItems /\ limit = <<1>>) =>
         DictGet(ret.val[1], "items") = << << <<"title", <<"1">>>> >> >>

\* limit 1 cuts off a second item that has a field
C3_Witness ==
  /\ Returned
  /\ limit = <<1>>
  /\ data = TwoTitledItems
  /\ Len(DictGet(ret.val[1], "items")) = 1

(***************************************************************************)
(* C10: the fields of a channel are scanned in the whole channel segment,  *)
(* item blocks included: the record has tag t iff <t> occurs in the        *)
(* segment with non-empty content, its value being the decoded text        *)
(* between the first <t> and the first </t>; a channel whose only title is *)
(* inside its item gets that title and does not fail; EmptyChannel is      *)
(* raised only when some channel has no channel tag with non-empty content.*)
(***************************************************************************)
TitleOnlyInItem == Channel(<<"none", <<"title">>>>, 1)

BlockStarts == {k \in 1..Len(out) : out[k] = BlockOpen}

\* items absent or empty
NoItems(record) == ~DictHas(record, "items") \/ DictGet(record, "items") = <<>>

\* the number of channels serialized: up to and including the first without items
Serialized ==
  LET itemless == {i \in 1..Len(ret.val) : NoItems(ret.val[i])}
  IN IF itemless = {} THEN Len(ret.val) ELSE Least(itemless)

LastChar(line) == line[Len(line)]

(***************************************************************************)
(* C4: serialize stops at the first channel whose item list is absent or   *)
(* empty: the output has a block for each channel up to and including that *)
(* channel and no line for a later one; that channel's block ends right    *)
(* after its field lines, with no items key; when no channel is itemless,  *)
(* every channel is serialized.                                            *)
(***************************************************************************)
C4_StopAtItemless ==
  pc = "done" =>
    /\ Cardinality(BlockStarts) = Serialized
    /\ \A i \in 1..Serialized :
         LET s == Nth(BlockStarts, i)
             fields == FieldsOf(ret.val[i])
         IN /\ \A j \in 1..Len(fields) :
                 out[s + j] = FieldLine(ChannelIndent, fields[j][1], fields[j][2])
            /\ IF NoItems(ret.val[i])
               THEN /\ Len(out) = s + Len(fields) + 1
                    /\ out[Len(out)] = <<"}">>
               ELSE out[s + Len(fields) + 1] = ItemsOpen

\* the first of several channels has no items: the later ones are not serialized
C4_Witness ==
  /\ pc = "done"
  /\ Len(ret.val) >= 2
  /\ NoItems(ret.val[1])
  /\ Cardinality(BlockStarts) = 1

(***************************************************************************)
(* C5: a document of one channel with a title and a description and no     *)
(* item parses to one record holding exactly those fields and no items     *)
(* key, and is serialized as one brace block with one quoted line per      *)
(* field and no trailing comma on the last field.                          *)
(***************************************************************************)
Scenario1 == Channel(<<"title_desc", <<>>>>, 1)

C5_Scenario1 ==
  (pc = "done" /\ data = Scenario1) =>
    /\ ret.val = << << <<"title", <<"A">>>>, <<"description", <<"D">>>> >> >>
    /\ out = << <<"{">>,
                FieldLine(ChannelIndent, "title", <<"A">>),
                PySlice(FieldLine(ChannelIndent, "description", <<"D">>), 0, -1),
                <<"}">> >>

(***************************************************************************)
(* C6: the output of serialize has no trailing comma on the last field     *)
(* line of an item block, on the closing line of the last item of an items *)
(* list, or on the final line; each stripping removes exactly a comma,     *)
(* every item record of a parse result having a field and every serialized *)
(* items list being non-empty.                                             *)
(***************************************************************************)
C6_NoTrailingComma ==
  pc = "done" =>
    LET closes == {k \in 1..Len(out) : PySlice(out[k], 0, 5) = PySlice(ItemClose, 0, 5)}
        ends == {k \in 1..Len(out) : out[k] = ItemsClose}
    IN /\ \A k \in closes : LastChar(out[k - 1]) = Quote
       /\ \A k \in ends : out[k - 1] = PySlice(ItemClose, 0, 5)
       /\ out[Len(out)] = <<"}">>
       /\ \A c \in 1..Len(cut) : cut[c] = ","
       /\ Len(cut) = Cardinality(closes) + Cardinality(ends) + 1
       /\ \A i \in 1..Len(ret.val) :
            DictHas(ret.val[i], "items") =>
              \A j \in 1..Len(DictGet(ret.val[i], "items")) :
                Len(DictGet(ret.val[i], "items")[j]) > 0

\* a serialized channel with two item blocks
C6_Witness ==
  /\ pc = "done"
  /\ DictHas(ret.val[1], "items")
  /\ Len(DictGet(ret.val[1], "items")) >= 2
  /\ Len(cut) >= 4

====
